---------------------------- MODULE Spec2Model ----------------------------
(***************************************************************************)
(* A model of the take_mut crate (src/src/lib.rs): take() and              *)
(* take_no_exit() acting on one slot (`mut_ref: &mut T`), driven by a      *)
(* caller that makes up to MaxCalls calls with transformations taken from  *)
(* a small set.  T is modelled as Option<0..MaxVal>, the one type for      *)
(* which the crate provides Sentinel.                                      *)
(*                                                                         *)
(* A value of T is an object [id, v]: `v` is its content and `id` its      *)
(* identity, so that a bitwise copy (ptr::read) and a teardown of the      *)
(* same object can be told from a teardown of an equal object.             *)
(* dropped[id] counts how many times the object was torn down (dropped or  *)
(* consumed); a count of 2 is a double drop.                               *)
(***************************************************************************)
EXTENDS Integers, Sequences, FiniteSets

VARIABLES
    slot,        \* the bits stored at *mut_ref
    slotOwns,    \* TRUE iff *mut_ref logically owns the object its bits denote
    pc,          \* position of control
    op,          \* the call in progress or last ended: "none", "take", "take_no_exit"
    closure,     \* the transformation passed to the call
    old_t,       \* local old_t of take / take_no_exit
    new_t,       \* local new_t of take / take_no_exit
    sentinel,    \* the value Sentinel::new_sentinel() returned in this call
    displaced,   \* the value the second replace() returned in this call
    dropped,     \* teardown count of every object
    nextId,      \* identity of the next object to be created
    process,     \* "running" or "exited"
    exit_status, \* the process's exit status once exited
    outcome,     \* how the last call ended: "none", "returned", "panicked", "exited", "ub"
    orig,        \* the object the slot held when the call began
    trace,       \* what the call in progress has done so far, in order
    calls        \* number of calls made

vars == <<slot, slotOwns, pc, op, closure, old_t, new_t, sentinel, displaced,
          dropped, nextId, process, exit_status, outcome, orig, trace, calls>>

---------------------------------------------------------------------------
(* Bounds *)

MaxVal == 6

MaxCalls == 3

(* Status code of the process when the closure of take() panics. *)
ExitStatus == 101

MaxId == 2 * MaxCalls

---------------------------------------------------------------------------
(* Values of T = Option<0..MaxVal> *)

None == <<>>

Some(n) == <<n>>

Val == {None} \cup {Some(n) : n \in 0..MaxVal}

NoObj == [id |-> 0 - 1, v |-> None]

Obj(i, c) == [id |-> i, v |-> c]

(* impl<T> Sentinel for Option<T>: new_sentinel() is None. *)
new_sentinel == None

---------------------------------------------------------------------------
(* Transformations (the F: FnOnce(T) -> T arguments) *)

Closures ==
    {[kind |-> "identity", c |-> None]}
        \cup {[kind |-> "drop_new", c |-> x] : x \in Val}
        \cup {[kind |-> "map_inc", c |-> None]}
        \cup {[kind |-> "panic", c |-> None]}

(* v.map(|x| x + 1) *)
MapInc(v) == IF v = None THEN None ELSE Some(v[1] + 1)

(* The content f returns for content v, when f returns. *)
Transform(f, v) ==
    CASE f.kind = "identity" -> v
      [] f.kind = "drop_new" -> f.c
      [] f.kind = "map_inc"  -> MapInc(v)
      [] OTHER               -> v

(* f stays within the modelled contents on v. *)
InRange(f, v) ==
    IF f.kind = "map_inc" /\ v # None THEN v[1] < MaxVal ELSE TRUE

(* closure(old): whether it panics, the object it returns, the objects it
   tears down (by drop, by consuming them, or by unwinding while it owns
   them) and whether it creates an object. *)
Invoke(f, old, fresh) ==
    CASE f.kind = "identity" ->
           [panicked |-> FALSE, value |-> old, drops |-> {}, used |-> 0]
      [] f.kind = "panic" ->
           [panicked |-> TRUE, value |-> NoObj, drops |-> {old.id}, used |-> 0]
      [] OTHER ->
           [panicked |-> FALSE, value |-> Obj(fresh, Transform(f, old.v)),
            drops |-> {old.id}, used |-> 1]

Drop(d, ids) == [i \in DOMAIN d |-> IF i \in ids THEN d[i] + 1 ELSE d[i]]

Ev(e, o) == [ev |-> e, obj |-> o]

Events(e) == {i \in 1..Len(trace) : trace[i].ev = e}

---------------------------------------------------------------------------
Init ==
    /\ slot \in {Obj(0, c) : c \in Val}
    /\ slotOwns = TRUE
    /\ pc = "idle"
    /\ op = "none"
    /\ closure = [kind |-> "identity", c |-> None]
    /\ old_t = NoObj
    /\ new_t = NoObj
    /\ sentinel = NoObj
    /\ displaced = NoObj
    /\ dropped = [i \in 0..MaxId |-> 0]
    /\ nextId = 1
    /\ process = "running"
    /\ exit_status = 0
    /\ outcome = "none"
    /\ orig = NoObj
    /\ trace = <<>>
    /\ calls = 0

(* The caller calls `name` with transformation f. *)
Call(name, f, first) ==
    /\ pc = "idle"
    /\ process = "running"
    /\ outcome # "ub"
    /\ calls < MaxCalls
    /\ InRange(f, slot.v)
    /\ pc' = first
    /\ op' = name
    /\ closure' = f
    /\ orig' = slot
    /\ calls' = calls + 1
    /\ old_t' = NoObj
    /\ new_t' = NoObj
    /\ sentinel' = NoObj
    /\ displaced' = NoObj
    /\ trace' = <<>>
    /\ outcome' = "none"
    /\ UNCHANGED <<slot, slotOwns, dropped, nextId, process, exit_status>>

---------------------------------------------------------------------------
(* take *)

TakeCall ==
    /\ pc = "idle"
    /\ \E f \in Closures : Call("take", f, "take_read")

(* let old_t = ptr::read(mut_ref): a bitwise copy; the slot keeps its bits
   and no teardown runs. *)
TakeRead ==
    /\ pc = "take_read"
    /\ old_t' = slot
    /\ slotOwns' = FALSE
    /\ trace' = Append(trace, Ev("read", slot))
    /\ pc' = "take_closure"
    /\ UNCHANGED <<slot, op, closure, new_t, sentinel, displaced, dropped, nextId,
                   process, exit_status, outcome, orig, calls>>

(* let new_t = closure(old_t) *)
TakeClosure ==
    /\ pc = "take_closure"
    /\ LET r == Invoke(closure, old_t, nextId) IN
        /\ dropped' = Drop(dropped, r.drops)
        /\ nextId' = nextId + r.used
        /\ new_t' = r.value
        /\ pc' = IF r.panicked THEN "take_unwind" ELSE "take_write"
    /\ trace' = Append(trace, Ev("invoke", old_t))
    /\ UNCHANGED <<slot, slotOwns, op, closure, old_t, sentinel, displaced,
                   process, exit_status, outcome, orig, calls>>

(* A write by assignment, which tears down the previous contents first. *)
TakeWrite_Assign ==
    /\ pc = "take_write"
    /\ dropped' = Drop(dropped, {slot.id})
    /\ slot' = new_t
    /\ slotOwns' = TRUE
    /\ trace' = Append(trace, Ev("write", new_t))
    /\ pc' = "idle"
    /\ outcome' = "returned"
    /\ UNCHANGED <<op, closure, old_t, new_t, sentinel, displaced, nextId,
                   process, exit_status, orig, calls>>

(* A write that puts the value read back. *)
TakeWrite_Old ==
    /\ pc = "take_write"
    /\ slot' = old_t
    /\ slotOwns' = TRUE
    /\ trace' = Append(trace, Ev("write", old_t))
    /\ pc' = "idle"
    /\ outcome' = "returned"
    /\ UNCHANGED <<op, closure, old_t, new_t, sentinel, displaced, dropped, nextId,
                   process, exit_status, orig, calls>>

(* ptr::write(mut_ref, new_t): overwrites without tearing down the previous
   contents; exit_on_panic and take then return. *)
TakeWrite ==
    /\ pc = "take_write"
    /\ slot' = new_t
    /\ slotOwns' = TRUE
    /\ trace' = Append(trace, Ev("write", new_t))
    /\ pc' = "idle"
    /\ outcome' = "returned"
    /\ UNCHANGED <<op, closure, old_t, new_t, sentinel, displaced, dropped, nextId,
                   process, exit_status, orig, calls>>

(* The Abort Guard on a failure of its operation: the process terminates
   with the fixed status. *)
exit_on_panic ==
    /\ process' = "exited"
    /\ exit_status' = ExitStatus
    /\ pc' = "exited"
    /\ outcome' = "exited"
    /\ UNCHANGED <<slot, slotOwns, op, closure, old_t, new_t, sentinel, displaced,
                   dropped, nextId, orig, trace, calls>>

(* The panic leaves the function and reaches the caller, which goes on. *)
Propagate ==
    /\ pc' = "idle"
    /\ outcome' = "panicked"
    /\ UNCHANGED <<slot, slotOwns, op, closure, old_t, new_t, sentinel, displaced,
                   dropped, nextId, process, exit_status, orig, trace, calls>>

(* take without the guard around its body. *)
TakeUnwind_Unguarded ==
    /\ pc = "take_unwind"
    /\ Propagate

(* The panic of the closure unwinds out of the body of take, which is the
   operation take hands to exit_on_panic. *)
TakeUnwind ==
    /\ pc = "take_unwind"
    /\ exit_on_panic

---------------------------------------------------------------------------
(* take_no_exit *)

TakeNoExitCall ==
    /\ pc = "idle"
    /\ \E f \in Closures : Call("take_no_exit", f, "ne_sentinel")

(* A first step that copies the value out and leaves the slot's bits, as
   take does. *)
NoExitInstallSentinel_Read ==
    /\ pc = "ne_sentinel"
    /\ sentinel' = Obj(nextId, new_sentinel)
    /\ nextId' = nextId + 1
    /\ old_t' = slot
    /\ slotOwns' = FALSE
    /\ trace' = Append(trace, Ev("sentinel", sentinel'))
    /\ pc' = "ne_closure"
    /\ UNCHANGED <<slot, op, closure, new_t, displaced, dropped, process,
                   exit_status, outcome, orig, calls>>

(* let old_t = replace(mut_ref, Sentinel::new_sentinel()) *)
NoExitInstallSentinel ==
    /\ pc = "ne_sentinel"
    /\ sentinel' = Obj(nextId, new_sentinel)
    /\ nextId' = nextId + 1
    /\ old_t' = slot
    /\ slot' = sentinel'
    /\ trace' = Append(trace, Ev("sentinel", sentinel'))
    /\ pc' = "ne_closure"
    /\ UNCHANGED <<slotOwns, op, closure, new_t, displaced, dropped, process,
                   exit_status, outcome, orig, calls>>

(* The closure is handed what the slot holds now instead of old_t. *)
NoExitClosure_Slot ==
    /\ pc = "ne_closure"
    /\ LET r == Invoke(closure, slot, nextId) IN
        /\ dropped' = Drop(dropped, r.drops)
        /\ nextId' = nextId + r.used
        /\ new_t' = r.value
        /\ pc' = IF r.panicked THEN "ne_unwind" ELSE "ne_install"
    /\ trace' = Append(trace, Ev("invoke", slot))
    /\ UNCHANGED <<slot, slotOwns, op, closure, old_t, sentinel, displaced,
                   process, exit_status, outcome, orig, calls>>

(* let new_t = closure(old_t) *)
NoExitClosure ==
    /\ pc = "ne_closure"
    /\ LET r == Invoke(closure, old_t, nextId) IN
        /\ dropped' = Drop(dropped, r.drops)
        /\ nextId' = nextId + r.used
        /\ new_t' = r.value
        /\ pc' = IF r.panicked THEN "ne_unwind" ELSE "ne_install"
    /\ trace' = Append(trace, Ev("invoke", old_t))
    /\ UNCHANGED <<slot, slotOwns, op, closure, old_t, sentinel, displaced,
                   process, exit_status, outcome, orig, calls>>

(* The result is never put back: the slot keeps what it held. *)
NoExitInstallResult_Discard ==
    /\ pc = "ne_install"
    /\ displaced' = slot
    /\ trace' = Append(trace, Ev("install", slot))
    /\ pc' = "ne_release"
    /\ UNCHANGED <<slot, slotOwns, op, closure, old_t, new_t, sentinel, dropped,
                   nextId, process, exit_status, outcome, orig, calls>>

(* The result is installed but it is the result, not the displaced value,
   that goes on to release_sentinel. *)
NoExitInstallResult_Wrong ==
    /\ pc = "ne_install"
    /\ displaced' = new_t
    /\ slot' = new_t
    /\ trace' = Append(trace, Ev("install", new_t))
    /\ pc' = "ne_release"
    /\ UNCHANGED <<slotOwns, op, closure, old_t, new_t, sentinel, dropped, nextId,
                   process, exit_status, outcome, orig, calls>>

(* replace(mut_ref, new_t): the slot receives new_t and the call yields the
   value the slot held. *)
NoExitInstallResult ==
    /\ pc = "ne_install"
    /\ displaced' = slot
    /\ slot' = new_t
    /\ trace' = Append(trace, Ev("install", new_t))
    /\ pc' = "ne_release"
    /\ UNCHANGED <<slotOwns, op, closure, old_t, new_t, sentinel, dropped, nextId,
                   process, exit_status, outcome, orig, calls>>

(* The displaced value is dropped on the floor; release_sentinel is not
   called. *)
NoExitRelease_Skip ==
    /\ pc = "ne_release"
    /\ dropped' = Drop(dropped, {displaced.id})
    /\ pc' = "idle"
    /\ outcome' = "returned"
    /\ UNCHANGED <<slot, slotOwns, op, closure, old_t, new_t, sentinel, displaced,
                   nextId, process, exit_status, orig, trace, calls>>

(* .release_sentinel() on the displaced value, then take_no_exit returns.
   For Option, release_sentinel is unchecked_unwrap_none(): it consumes a
   None; on a Some its behaviour is undefined, and the call may seem to
   return or leave the process in an undefined state. *)
NoExitRelease ==
    /\ pc = "ne_release"
    /\ trace' = Append(trace, Ev("release", displaced))
    /\ dropped' = Drop(dropped, {displaced.id})
    /\ pc' = "idle"
    /\ IF displaced.v = new_sentinel
          THEN outcome' = "returned"
          ELSE outcome' \in {"returned", "ub"}
    /\ UNCHANGED <<slot, slotOwns, op, closure, old_t, new_t, sentinel, displaced,
                   nextId, process, exit_status, orig, calls>>

(* take_no_exit with the guard of take around its body. *)
NoExitUnwind_Guarded ==
    /\ pc = "ne_unwind"
    /\ exit_on_panic

(* The panic of the closure unwinds through take_no_exit, which owns
   nothing at that point, and reaches the caller. *)
NoExitUnwind ==
    /\ pc = "ne_unwind"
    /\ Propagate

---------------------------------------------------------------------------
Next ==
    \/ TakeCall
    \/ TakeRead
    \/ TakeClosure
    \/ TakeWrite
    \/ TakeUnwind
    \/ TakeNoExitCall
    \/ NoExitInstallSentinel
    \/ NoExitClosure
    \/ NoExitInstallResult
    \/ NoExitRelease
    \/ NoExitUnwind

Spec == Init /\ [][Next]_vars

---------------------------------------------------------------------------
(* Properties *)

(* The slot owns a live value of T. *)
WellFormed ==
    /\ slotOwns
    /\ slot.id \in DOMAIN dropped
    /\ dropped[slot.id] = 0
    /\ slot.v \in Val

Returned(name) == pc = "idle" /\ op = name /\ outcome = "returned"

(* The closure of the call in progress or last ended was invoked and failed. *)
Failed(name) == op = name /\ closure.kind = "panic" /\ Events("invoke") # {}

EvNames == [i \in 1..Len(trace) |-> trace[i].ev]

NoExitOrder == <<"sentinel", "invoke", "install", "release">>

IsPrefix(a, b) == Len(a) <= Len(b) /\ \A i \in 1..Len(a) : a[i] = b[i]

C1_Result ==
    Returned("take") =>
        /\ slot.v = Transform(closure, orig.v)
        /\ closure.kind = "identity" => slot = orig
        /\ slotOwns

C1_Frame ==
    pc \in {"take_read", "take_write"} =>
        UNCHANGED <<dropped, nextId, process, exit_status, closure, orig, calls>>

(* C1: after take(slot, f) returns, the slot holds exactly f(v), where v is
   the value the slot held at the call (the same object when f is the
   identity), and the steps of take itself change nothing but the slot. *)
C1_TakeInstallsResult == []C1_Result /\ [][C1_Frame]_vars

C1_Witness ==
    /\ Returned("take")
    /\ closure.kind = "drop_new"
    /\ orig.v = Some(0)
    /\ slot.v = Some(1)

(* C2: once the closure of take has failed, take never returns or unwinds
   to its caller: control is inside the guard or the process has exited,
   and an exited process has status 101. *)
C2_TakePanicExits ==
    Failed("take") =>
        /\ outcome \notin {"returned", "panicked"}
        /\ pc \in {"take_unwind", "exited"}
        /\ pc = "exited" => (process = "exited" /\ exit_status = ExitStatus)
        /\ pc = "take_unwind" => process = "running"

C2_Witness ==
    /\ Failed("take")
    /\ process = "exited"
    /\ exit_status = ExitStatus
    /\ outcome = "exited"

(* C3: after take_no_exit(slot, f) returns, the slot holds exactly f(v) and
   not the sentinel of the call; Some(5) under increment ends as Some(6). *)
C3_NoExitInstallsResult ==
    Returned("take_no_exit") =>
        /\ slot.v = Transform(closure, orig.v)
        /\ closure.kind = "identity" => slot = orig
        /\ slot # sentinel
        /\ WellFormed
        /\ (closure.kind = "map_inc" /\ orig.v = Some(5)) => slot.v = Some(6)

C3_Witness ==
    /\ Returned("take_no_exit")
    /\ closure.kind = "map_inc"
    /\ orig.v = Some(5)
    /\ slot.v = Some(6)

(* C4: once the failure of the closure has propagated out of take_no_exit,
   the slot holds the sentinel value of T, equal to new_sentinel(),
   whatever it held before the call. *)
C4_NoExitPanicLeavesSentinel ==
    (pc = "idle" /\ Failed("take_no_exit")) =>
        /\ slot.v = new_sentinel
        /\ slot = sentinel

C4_Witness ==
    /\ pc = "idle"
    /\ Failed("take_no_exit")
    /\ orig.v = Some(3)
    /\ slot.v = None

(* C5: when the closure of take_no_exit fails, the failure reaches the
   caller and the process keeps running; the sentinel is in the slot while
   the failure is still inside take_no_exit. *)
C5_NoExitPanicPropagates ==
    Failed("take_no_exit") =>
        /\ process = "running"
        /\ pc \in {"ne_unwind", "idle"}
        /\ pc = "idle" => outcome = "panicked"
        /\ pc = "ne_unwind" => (slot = sentinel /\ WellFormed)

C5_Witness ==
    /\ Failed("take_no_exit")
    /\ pc = "idle"
    /\ outcome = "panicked"
    /\ process = "running"
    /\ calls = MaxCalls

(* C6: while the process runs and control is outside take and take_no_exit
   the slot owns a live value of T, which is the original, the result of
   the closure or the sentinel; the slot is moved-out only inside take. *)
C6_SlotInvariant ==
    /\ (process = "running" /\ pc = "idle") =>
          /\ WellFormed
          /\ outcome # "none" => slot \in {orig, new_t, sentinel}
    /\ ~slotOwns =>
          /\ op = "take"
          /\ pc \in {"take_closure", "take_write", "take_unwind", "exited"}

C6_Witness ==
    /\ pc = "idle"
    /\ process = "running"
    /\ outcome = "panicked"
    /\ WellFormed
    /\ dropped[orig.id] = 1

(* C7: in every call of take and take_no_exit the closure is invoked at
   most once so far and exactly once when the call has ended (by return,
   exit or propagation), with the value the slot held when the call began. *)
C7_ClosureInvokedOnce ==
    /\ Cardinality(Events("invoke")) <= 1
    /\ \A i \in Events("invoke") : trace[i].obj = orig
    /\ outcome # "none" => Cardinality(Events("invoke")) = 1

C7_Witness ==
    /\ outcome = "exited"
    /\ Cardinality(Events("invoke")) = 1
    /\ orig.v = Some(2)

(* C8: release_sentinel is only invoked on the value new_sentinel()
   produced in the same call, which is the value displaced from the slot
   when the result is installed; that value is None, never a Some. *)
C8_ReleaseOnlySentinel ==
    /\ \A i \in Events("release") :
          /\ trace[i].obj = sentinel
          /\ trace[i].obj = displaced
          /\ trace[i].obj.v = None
    /\ \A i \in Events("sentinel") : trace[i].obj.v = None
    /\ outcome # "ub"

C8_Witness ==
    /\ Events("release") # {}
    /\ orig.v = Some(2)
    /\ closure.kind = "identity"

(* C9: take_no_exit installs the sentinel, then invokes the closure, then
   installs the result, then releases the displaced sentinel; the release
   happens once when the closure returned and never when it failed. *)
C9_NoExitOrder ==
    op = "take_no_exit" =>
        /\ IsPrefix(EvNames, NoExitOrder)
        /\ pc = "ne_closure" => slot = sentinel
        /\ pc = "ne_release" => slot = new_t
        /\ outcome = "returned" => EvNames = NoExitOrder
        /\ Failed("take_no_exit") => EvNames = <<"sentinel", "invoke">>

C9_Witness ==
    /\ Returned("take_no_exit")
    /\ Len(trace) = 4
    /\ closure.kind = "drop_new"

(* C10: take tears nothing down itself: when the closure drops the original
   and returns a new value, the original has been torn down exactly once
   when the new value is about to be installed and after it is, the new
   value is live, and no object is ever torn down twice. *)
C10_TakeNoTeardown ==
    /\ \A i \in DOMAIN dropped : dropped[i] <= 1
    /\ (op = "take" /\ closure.kind = "drop_new" /\ pc = "take_write") =>
          (dropped[orig.id] = 1 /\ slot = orig /\ dropped[new_t.id] = 0)
    /\ (Returned("take") /\ closure.kind = "drop_new") =>
          (dropped[orig.id] = 1 /\ slot = new_t /\ dropped[slot.id] = 0)
    /\ (Returned("take") /\ closure.kind = "identity") => dropped[orig.id] = 0

C10_Witness ==
    /\ op = "take"
    /\ pc = "take_write"
    /\ closure.kind = "drop_new"
    /\ dropped[orig.id] = 1
    /\ slot = orig

=============================================================================
